---- MODULE Spec2Model ----
(***************************************************************************)
(* Telemetry sampling and rolling history of the performance overlay:      *)
(* PerformanceMonitor (Initialize / Shutdown / Update /                    *)
(* GetWmiPropertyValue) and the per-frame CPU history kept by              *)
(* Gui::RenderPerformanceWindow.                                           *)
(*                                                                         *)
(* Provider calls (COM / WMI) are the environment: the outcome of each     *)
(* call is an input of the action that makes it.                           *)
(***************************************************************************)
EXTENDS Integers, Sequences, FiniteSets, TLC

\* ------------------------------------------------------------------ bounds
\* Number of PerformanceMonitor::Initialize calls explored.
MaxInitialize == 2
\* Number of PerformanceMonitor::Shutdown calls explored.
MaxShutdown == 3
\* Number of rendered frames explored by the lifecycle and sampling specs.
MaxFrames == 2
\* Frames rendered beyond the history capacity by the history spec.
MaxExtraFrames == 3
\* Messages that can wait in the message queue at once.
MaxQueue == 2

\* ------------------------------------------------------ program constants
\* static float cpuHistory[90]
HistorySize == 90
\* ULONG is a 32-bit unsigned integer.
ULONG_BITS == 32

\* --------------------------------------------------------- float values
\* m_cpuLoad and m_diskUsage only ever hold a converted ULONG: they are
\* modelled by that integer.  m_memoryUsage holds a quotient: it is modelled
\* as the exact quantity num/den * 2^exp2 in lowest terms.  exp2 is 0 except
\* for the quotient of a wrapped 32-bit difference, which is 2^32 - k for a
\* small k and converts to the float 2^32 (floats near 2^32 are 256 apart).
RECURSIVE GCD(_, _)
GCD(a, b) == IF b = 0 THEN a ELSE GCD(b, a % b)

Ratio(n, d, e) ==
    IF n = 0 THEN [num |-> 0, den |-> 1, exp2 |-> 0]
    ELSE LET g == GCD(n, d) IN [num |-> n \div g, den |-> d \div g, exp2 |-> e]

\* static_cast<float>(ULONG): exact below 2^24, which every reading of the
\* model is.
ULongToFloat(u) == u

\* totalMemory - freeMemory on ULONG: borrow means the result is 2^32 - mag.
ULongSub(a, b) ==
    IF a >= b THEN [borrow |-> FALSE, mag |-> a - b]
    ELSE [borrow |-> TRUE, mag |-> b - a]

\* static_cast<float>(totalMemory - freeMemory) / static_cast<float>(totalMemory) * 100.0f
MemoryPercent(totalMemory, freeMemory) ==
    LET diff == ULongSub(totalMemory, freeMemory) IN
    IF diff.borrow THEN Ratio(100, totalMemory, ULONG_BITS)
    ELSE Ratio(diff.mag * 100, totalMemory, 0)

\* 0 <= v <= 100 for a quotient.
InPercentRange(v) == v.exp2 = 0 /\ v.num <= 100 * v.den

\* ----------------------------------------------------------- _wtol(text)
\* A BSTR is a sequence of characters; _wtol converts the leading decimal
\* digits and stops at the first other character ("x" -> 0, "4x" -> 4).
DigitChars == {"0", "1", "2", "3", "4", "5", "6", "7", "8", "9"}

DigitVal(c) ==
    CASE c = "0" -> 0 [] c = "1" -> 1 [] c = "2" -> 2 [] c = "3" -> 3
      [] c = "4" -> 4 [] c = "5" -> 5 [] c = "6" -> 6 [] c = "7" -> 7
      [] c = "8" -> 8 [] c = "9" -> 9

RECURSIVE WtolFrom(_, _, _)
WtolFrom(s, i, acc) ==
    IF i > Len(s) \/ s[i] \notin DigitChars THEN acc
    ELSE WtolFrom(s, i + 1, acc * 10 + DigitVal(s[i]))

Wtol(s) == WtolFrom(s, 1, 0)

\* TRUE iff the whole text is a decimal number.
IsNumericText(s) == Len(s) > 0 /\ \A i \in 1..Len(s) : s[i] \in DigitChars


\* ------------------------------------------------- provider query results
\* What one WMI query hands back to GetWmiPropertyValue: ExecQuery's HRESULT
\* (exec), whether IEnumWbemClassObject::Next returned a record (row),
\* IWbemClassObject::Get's HRESULT (get) and the VARIANT it filled.
ExecFailed == [exec |-> FALSE, row |-> FALSE, get |-> FALSE, vt |-> "VT_EMPTY", bstrVal |-> <<>>, ulVal |-> 0]
NoRow      == [exec |-> TRUE,  row |-> FALSE, get |-> FALSE, vt |-> "VT_EMPTY", bstrVal |-> <<>>, ulVal |-> 0]
GetFailed  == [exec |-> TRUE,  row |-> TRUE,  get |-> FALSE, vt |-> "VT_EMPTY", bstrVal |-> <<>>, ulVal |-> 0]
NullField  == [exec |-> TRUE,  row |-> TRUE,  get |-> TRUE,  vt |-> "VT_NULL",  bstrVal |-> <<>>, ulVal |-> 0]
TextField(t) == [exec |-> TRUE, row |-> TRUE, get |-> TRUE, vt |-> "VT_BSTR", bstrVal |-> t, ulVal |-> 0]
IntField(v)  == [exec |-> TRUE, row |-> TRUE, get |-> TRUE, vt |-> "VT_I4",   bstrVal |-> <<>>, ulVal |-> v]

\* The Win32_OperatingSystem query of Update: ExecQuery's HRESULT, whether
\* Next returned a record, and for each of the two fields whether Get found
\* it (get) and its text.
MemExecFailed == [exec |-> FALSE, row |-> FALSE, total |-> [get |-> FALSE, bstrVal |-> <<>>], free |-> [get |-> FALSE, bstrVal |-> <<>>]]
MemNoRow      == [exec |-> TRUE,  row |-> FALSE, total |-> [get |-> FALSE, bstrVal |-> <<>>], free |-> [get |-> FALSE, bstrVal |-> <<>>]]
MemRow(t, f)  == [exec |-> TRUE,  row |-> TRUE,  total |-> t, free |-> f]
FoundField(t) == [get |-> TRUE, bstrVal |-> t]
MissingField  == [get |-> FALSE, bstrVal |-> <<>>]

\* Query outcomes of the sampling specification: every path of
\* GetWmiPropertyValue, with readings inside and above 0..100 and a text
\* that is not a number.
CpuOutcomes ==
    {ExecFailed, NoRow, GetFailed, NullField, IntField(7),
     TextField(<<"4", "0">>), TextField(<<"1", "5", "0">>), TextField(<<"x">>)}

DiskOutcomes ==
    {ExecFailed, TextField(<<"4", "0">>), TextField(<<"1", "5", "0">>), TextField(<<"x">>)}

\* Every path of the memory block of Update: no result, a well-formed
\* record, a total of 0, free above total, a text that is not a number and
\* a missing field.
MemOutcomes ==
    {MemExecFailed, MemNoRow,
     MemRow(FoundField(<<"4">>), FoundField(<<"2">>)),
     MemRow(FoundField(<<"4">>), FoundField(<<"0">>)),
     MemRow(FoundField(<<"0">>), FoundField(<<"2">>)),
     MemRow(FoundField(<<"2">>), FoundField(<<"4">>)),
     MemRow(FoundField(<<"x">>), FoundField(<<"2">>)),
     MemRow(FoundField(<<"4">>), FoundField(<<"x">>)),
     MemRow(MissingField, FoundField(<<"2">>)),
     MemRow(FoundField(<<"4">>), MissingField)}

\* Query outcomes of the lifecycle specification: each query fails or
\* returns one well-formed reading.
LifeCpuOutcomes  == {ExecFailed, TextField(<<"4", "0">>)}
LifeMemOutcomes  == {MemExecFailed, MemRow(FoundField(<<"4">>), FoundField(<<"2">>))}
LifeDiskOutcomes == {ExecFailed, TextField(<<"1", "5", "0">>)}

\* ------------------------------------------------------------------ state
VARIABLES
    m_pLocator,     \* IWbemLocator*  : "null", "live" or "dangling" (released, not nulled)
    m_pServices,    \* IWbemServices* : "null", "live" or "dangling"
    m_cpuLoad,      \* float
    m_memoryUsage,  \* float
    m_diskUsage,    \* float
    cpuHistory,     \* static float cpuHistory[90], slot i at index i + 1
    historyIndex,   \* static int historyIndex
    filled,         \* static bool filled
    comInits,       \* successful CoInitializeEx calls made so far
    comUninits,     \* CoUninitialize calls made so far
    held,           \* provider objects acquired and not yet released
    overReleased,   \* Release() calls made through a dangling pointer
    crashed,        \* the process died (undefined behaviour or invalid parameter)
    frames,         \* frames rendered by RenderPerformanceWindow so far
    pushed,         \* every value written into cpuHistory, in order
    calls,          \* Initialize / Shutdown calls made so far
    op,             \* the last operation: its name, Initialize's failing step, queries issued
    pc,             \* WinMain's position, named after the call it is about to make
    queue,          \* the thread's message queue, oldest message first
    msg             \* MSG msg of WinMain: the message retrieved last

vars == <<m_pLocator, m_pServices, m_cpuLoad, m_memoryUsage, m_diskUsage,
          cpuHistory, historyIndex, filled, comInits, comUninits, held,
          overReleased, crashed, frames, pushed, calls, op, pc, queue, msg>>

sampler == <<m_pLocator, m_pServices, comInits, comUninits, held, overReleased>>
values  == <<m_cpuLoad, m_memoryUsage, m_diskUsage>>
history == <<cpuHistory, historyIndex, filled>>
winMain == <<pc, queue, msg>>

\* PerformanceMonitor::PerformanceMonitor and the static initialisers of
\* RenderPerformanceWindow.
Init ==
    /\ m_pLocator = "null"
    /\ m_pServices = "null"
    /\ m_cpuLoad = ULongToFloat(0)
    /\ m_memoryUsage = Ratio(0, 1, 0)
    /\ m_diskUsage = ULongToFloat(0)
    /\ cpuHistory = [i \in 1..HistorySize |-> ULongToFloat(0)]
    /\ historyIndex = 0
    /\ filled = FALSE
    /\ comInits = 0
    /\ comUninits = 0
    /\ held = [loc |-> 0, svc |-> 0]
    /\ overReleased = 0
    /\ crashed = FALSE
    /\ frames = 0
    /\ pushed = <<>>
    /\ calls = [init |-> 0, shutdown |-> 0]
    /\ op = [name |-> "ctor", step |-> 0, queries |-> 0]
    /\ pc = "gui.Initialize"
    /\ queue = <<>>
    /\ msg = "WM_NULL"

\* The process dies: nothing else is observable afterwards.
Crash(name) ==
    /\ crashed' = TRUE
    /\ op' = [name |-> name, step |-> 0, queries |-> 0]
    /\ UNCHANGED <<sampler, values, history, frames, pushed, calls>>

\* ------------------------------------------ PerformanceMonitor::Initialize
\* failStep = 0: all five steps succeed; failStep = k: step k fails.
\* 1 CoInitializeEx, 2 CoInitializeSecurity, 3 CoCreateInstance,
\* 4 ConnectServer, 5 CoSetProxyBlanket.
FailSteps == 0..5

\* m_pLocator after Initialize: CoCreateInstance stores the new object, or
\* NULL when it fails; steps 4 and 5 Release() it without nulling it.
LocatorAfterInitialize(failStep) ==
    CASE failStep \in {1, 2} -> m_pLocator
      [] failStep = 3 -> "null"
      [] failStep \in {4, 5} -> "dangling"
      [] OTHER -> "live"

\* m_pServices after Initialize: ConnectServer stores the new proxy, or NULL
\* when it fails; step 5 Release()s it without nulling it.
ServicesAfterInitialize(failStep) ==
    CASE failStep \in {1, 2, 3} -> m_pServices
      [] failStep = 4 -> "null"
      [] failStep = 5 -> "dangling"
      [] OTHER -> "live"

\* Objects held after Initialize: on success one more locator and one more
\* proxy; on a failure everything the call acquired has been released.
HeldAfterInitialize(failStep) ==
    IF failStep = 0 THEN [loc |-> held.loc + 1, svc |-> held.svc + 1] ELSE held

Initialize(failStep) ==
    /\ ~crashed
    /\ calls.init < MaxInitialize
    /\ calls' = [calls EXCEPT !.init = @ + 1]
    /\ comInits' = IF failStep = 1 THEN comInits ELSE comInits + 1
    /\ comUninits' = IF failStep \in {0, 1} THEN comUninits ELSE comUninits + 1
    /\ m_pLocator' = LocatorAfterInitialize(failStep)
    /\ m_pServices' = ServicesAfterInitialize(failStep)
    /\ held' = HeldAfterInitialize(failStep)
    /\ op' = [name |-> "Initialize", step |-> failStep, queries |-> 0]
    /\ UNCHANGED <<overReleased, crashed, values, history, frames, pushed>>

\* -------------------------------------------- PerformanceMonitor::Shutdown
\* Release() through one pointer field: a live object is released, a
\* dangling pointer is released a second time.
HeldAfterRelease(ptr, n) == IF ptr = "live" THEN n - 1 ELSE n
OverReleases(ptr) == IF ptr = "dangling" THEN 1 ELSE 0

\* CoUninitialize calls made so far, after one more Shutdown: Shutdown ends
\* with an unconditional ::CoUninitialize().
UninitsAfterShutdown(n) == n + 1

Shutdown ==
    /\ ~crashed
    /\ calls.shutdown < MaxShutdown
    /\ \/ /\ "dangling" \in {m_pServices, m_pLocator}
          /\ Crash("Shutdown")
       \/ /\ calls' = [calls EXCEPT !.shutdown = @ + 1]
          /\ held' = [loc |-> HeldAfterRelease(m_pLocator, held.loc),
                      svc |-> HeldAfterRelease(m_pServices, held.svc)]
          /\ overReleased' = overReleased + OverReleases(m_pServices) + OverReleases(m_pLocator)
          /\ m_pServices' = "null"
          /\ m_pLocator' = "null"
          /\ comUninits' = UninitsAfterShutdown(comUninits)
          /\ op' = [name |-> "Shutdown", step |-> 0, queries |-> 0]
          /\ UNCHANGED <<comInits, crashed, values, history, frames, pushed>>


\* -------------------------------- PerformanceMonitor::GetWmiPropertyValue
\* Returns success and the out-parameter, which keeps the caller's value
\* unless a VT_BSTR or VT_I4 field was read.
GetWmiPropertyValue(o, value) ==
    IF ~o.exec THEN [success |-> FALSE, value |-> value]
    ELSE IF ~o.row THEN [success |-> FALSE, value |-> value]
    ELSE IF ~o.get THEN [success |-> FALSE, value |-> value]
    ELSE IF o.vt = "VT_BSTR" THEN [success |-> TRUE, value |-> Wtol(o.bstrVal)]
    ELSE IF o.vt = "VT_I4" THEN [success |-> TRUE, value |-> o.ulVal]
    ELSE [success |-> FALSE, value |-> value]

\* ---------------------------------------------- PerformanceMonitor::Update
\* Mutant: the counter is assigned whether or not the query succeeded.
CounterAssignedUnconditionally(o, current) ==
    ULongToFloat(GetWmiPropertyValue(o, 0).value)

\* m_cpuLoad / m_diskUsage after their block of Update.
CounterAfterUpdate(o, current) ==
    LET r == GetWmiPropertyValue(o, 0) IN
    IF r.success THEN ULongToFloat(r.value) ELSE current

\* The memory block ignores Get's HRESULT and hands vtProp.bstrVal to _wtol.
\* A missing TotalVisibleMemorySize leaves the zero-initialised VARIANT: _wtol
\* gets NULL, which is an invalid parameter (the process dies, or errno is
\* set and 0 returned).  A missing FreePhysicalMemory leaves the pointer that
\* VariantClear just freed: the old text may still be read, or 0.
MemReadMayCrash(m) == m.exec /\ m.row /\ (~m.total.get \/ ~m.free.get)

TotalMemoryReads(m) ==
    IF m.total.get THEN {Wtol(m.total.bstrVal)} ELSE {0}

FreeMemoryReads(m) ==
    IF m.free.get THEN {Wtol(m.free.bstrVal)}
    ELSE IF m.total.get THEN {0, Wtol(m.total.bstrVal)}
    ELSE {0}

\* Mutant: a total of 0 resets the value instead of skipping the update.
MemoryZeroedOnZeroTotal(m, totalMemory, freeMemory, current) ==
    IF m.exec /\ m.row
    THEN (IF totalMemory > 0 THEN MemoryPercent(totalMemory, freeMemory) ELSE Ratio(0, 1, 0))
    ELSE current

\* m_memoryUsage after the memory block of Update.
MemoryAfterUpdate(m, totalMemory, freeMemory, current) ==
    IF m.exec /\ m.row /\ totalMemory > 0
    THEN MemoryPercent(totalMemory, freeMemory)
    ELSE current

\* Mutant: the guard is missing.
UpdateNeverReturnsEarly == FALSE

\* if (!m_pServices) return;
UpdateReturnsEarly == m_pServices = "null"

\* Update's effect on the sampler; name is the operation recorded in op.
\* A dangling m_pServices is used as if it were live (undefined behaviour:
\* the process dies, or the queries run).
UpdateCore(c, m, d, name) ==
    IF UpdateReturnsEarly
    THEN /\ op' = [name |-> name, step |-> 0, queries |-> 0]
         /\ UNCHANGED <<sampler, values, crashed, calls>>
    ELSE \/ /\ m_pServices = "dangling" \/ MemReadMayCrash(m)
            /\ crashed' = TRUE
            /\ op' = [name |-> name, step |-> 0, queries |-> 0]
            /\ UNCHANGED <<sampler, values, calls>>
         \/ \E totalMemory \in TotalMemoryReads(m), freeMemory \in FreeMemoryReads(m) :
            /\ m_cpuLoad' = CounterAfterUpdate(c, m_cpuLoad)
            /\ m_memoryUsage' = MemoryAfterUpdate(m, totalMemory, freeMemory, m_memoryUsage)
            /\ m_diskUsage' = CounterAfterUpdate(d, m_diskUsage)
            /\ op' = [name |-> name, step |-> 0, queries |-> 3]
            /\ UNCHANGED <<sampler, crashed, calls>>

Update(c, m, d) ==
    /\ ~crashed
    /\ UpdateCore(c, m, d, "Update")
    /\ UNCHANGED <<history, frames, pushed>>

\* ------------------------------------------- Gui::RenderPerformanceWindow
\* The history buffer as one value: the static locals cpuHistory,
\* historyIndex and filled.
HistoryBuffer == [storage |-> cpuHistory, index |-> historyIndex, filled |-> filled]

\* Mutant: filled is raised one slot before the last one is written.
HistoryPushFillsEarly(buf, n, v) ==
    [storage |-> [buf.storage EXCEPT ![buf.index + 1] = v],
     index   |-> (buf.index + 1) % n,
     filled  |-> IF buf.index = n - 2 THEN TRUE ELSE buf.filled]

\* cpuHistory[historyIndex] = cpu; if (historyIndex == 89) filled = true;
\* historyIndex = (historyIndex + 1) % 90;   with n = 90
HistoryPush(buf, n, v) ==
    [storage |-> [buf.storage EXCEPT ![buf.index + 1] = v],
     index   |-> (buf.index + 1) % n,
     filled  |-> IF buf.index = n - 1 THEN TRUE ELSE buf.filled]

\* Mutant: the plot always starts at slot 0.
PlotOffsetZero(buf) == 0

\* values_offset passed to ImGui::PlotLines.
PlotOffset(buf) == IF buf.filled THEN buf.index ELSE 0

\* Mutant: only the written slots are plotted before the buffer is filled.
PlotCountWritten(buf, n) == IF buf.filled THEN n ELSE buf.index

\* values_count passed to ImGui::PlotLines.
PlotCount(buf, n) == n

\* What ImGui::PlotLines(label, values, values_count, values_offset, ...)
\* draws, left to right: values[(i + values_offset) % values_count].
PlotLines(buf, n) ==
    [i \in 1..PlotCount(buf, n) |-> buf.storage[((i - 1 + PlotOffset(buf)) % n) + 1]]

\* Mutant: the history is fed a constant instead of the CPU value.
HistorySampleZero(cpu) == 0

\* The value RenderPerformanceWindow writes into the history this frame.
HistorySample(cpu) == cpu

RenderPerformanceWindow(cpu) ==
    LET buf == HistoryPush(HistoryBuffer, HistorySize, HistorySample(cpu)) IN
    /\ cpuHistory' = buf.storage
    /\ historyIndex' = buf.index
    /\ filled' = buf.filled
    /\ frames' = frames + 1
    /\ pushed' = Append(pushed, HistorySample(cpu))

\* ------------------------------------------------------------ Gui::Render
\* m_perfMonitor.Update(); ... RenderPerformanceWindow();
Render(c, m, d) ==
    /\ ~crashed
    /\ UpdateCore(c, m, d, "Render")
    /\ IF crashed' THEN UNCHANGED <<history, frames, pushed>>
       ELSE RenderPerformanceWindow(m_cpuLoad')

\* ----------------------------------------------- Gui::Initialize, Shutdown
\* Gui::Initialize: the ImGui backends are set up first and the sampler is
\* initialised only if they came up.
GuiInitialize(backendsOk, failStep) ==
    IF backendsOk
    THEN Initialize(failStep)
    ELSE /\ ~crashed
         /\ UNCHANGED <<sampler, values, history, crashed, frames, pushed, calls, op>>

GuiInitializeResult(backendsOk, failStep) == backendsOk /\ failStep = 0

\* Gui::Shutdown: m_perfMonitor.Shutdown(), then the ImGui teardown.
GuiShutdown == Shutdown

\* ---------------------------------------------------------------- WinMain
\* The messages WndProc tells apart, and the one that ends the loop.
Messages == {"WM_APP_TRY_MSG", "WM_DESTROY", "WM_QUIT"}

\* Another thread or the system posts a message to the window.
PostMessage(m) ==
    /\ ~crashed
    /\ pc \in {"gui.Initialize", "loop"}
    /\ Len(queue) < MaxQueue
    /\ queue' = Append(queue, m)
    /\ UNCHANGED <<sampler, values, history, crashed, frames, pushed, calls, op, pc, msg>>

\* Gui gui(...); if (!gui.Initialize()) { gui.Shutdown(); ... return 1; }
WinMainInitialize(backendsOk, failStep) ==
    /\ pc = "gui.Initialize"
    /\ GuiInitialize(backendsOk, failStep)
    /\ pc' = IF GuiInitializeResult(backendsOk, failStep) THEN "loop" ELSE "gui.Shutdown"
    /\ UNCHANGED <<queue, msg>>

\* The explicit gui.Shutdown() of the failure branch; return 1 then runs
\* the destructors.
WinMainInitializeFailed ==
    /\ pc = "gui.Shutdown"
    /\ GuiShutdown
    /\ pc' = "~Gui"
    /\ UNCHANGED <<queue, msg>>

\* Mutant: the loop never sees a pending message.
PeekMessageNothing(q) == FALSE

\* ::PeekMessage(&msg, nullptr, 0U, 0U, PM_REMOVE) != 0
PeekMessage(q) == q # <<>>

\* WndProc: WM_DESTROY removes the tray icon and calls PostQuitMessage.
QueueAfterDispatch(q) ==
    IF Head(q) = "WM_DESTROY" THEN Append(Tail(q), "WM_QUIT") ELSE Tail(q)

\* One iteration that finds a message: it is removed and dispatched.
WinMainDispatch ==
    /\ ~crashed
    /\ pc = "loop"
    /\ msg # "WM_QUIT"
    /\ PeekMessage(queue)
    /\ msg' = Head(queue)
    /\ queue' = QueueAfterDispatch(queue)
    /\ UNCHANGED <<sampler, values, history, crashed, frames, pushed, calls, op, pc>>

\* One iteration that finds no message: gui.Render().
WinMainRender(c, m, d) ==
    /\ pc = "loop"
    /\ msg # "WM_QUIT"
    /\ ~PeekMessage(queue)
    /\ frames < MaxFrames
    /\ Render(c, m, d)
    /\ UNCHANGED winMain

\* The loop ends on WM_QUIT; the cleanup touches the window only, and
\* return then runs the destructors.
WinMainCleanup ==
    /\ ~crashed
    /\ pc = "loop"
    /\ msg = "WM_QUIT"
    /\ pc' = "~Gui"
    /\ UNCHANGED <<sampler, values, history, crashed, frames, pushed, calls, op, queue, msg>>

\* Gui::~Gui() { Shutdown(); }
GuiDestructor ==
    /\ pc = "~Gui"
    /\ GuiShutdown
    /\ pc' = "~PerformanceMonitor"
    /\ UNCHANGED <<queue, msg>>

\* PerformanceMonitor::~PerformanceMonitor() { Shutdown(); }  for the member
\* m_perfMonitor, after the body of ~Gui.
PerformanceMonitorDestructor ==
    /\ pc = "~PerformanceMonitor"
    /\ Shutdown
    /\ pc' = "return"
    /\ UNCHANGED <<queue, msg>>

\* ---------------------------------------------------------- specifications
\* Lifecycle: any sequence of Initialize, Shutdown, Update and Render calls.
Next ==
    \/ /\ \E failStep \in FailSteps : Initialize(failStep)
       /\ UNCHANGED winMain
    \/ /\ Shutdown
       /\ UNCHANGED winMain
    \/ /\ \E c \in LifeCpuOutcomes, m \in LifeMemOutcomes, d \in LifeDiskOutcomes : Update(c, m, d)
       /\ UNCHANGED winMain
    \/ /\ frames < MaxFrames
       /\ \E c \in LifeCpuOutcomes, m \in LifeMemOutcomes, d \in LifeDiskOutcomes : Render(c, m, d)
       /\ UNCHANGED winMain

Spec == Init /\ [][Next]_vars

\* Sampling: a sampler that is initialised and then refreshed with every
\* kind of query result.
SamplingNext ==
    \/ /\ Initialize(0)
       /\ UNCHANGED winMain
    \/ /\ \E c \in CpuOutcomes, m \in MemOutcomes, d \in DiskOutcomes : Update(c, m, d)
       /\ UNCHANGED winMain

SpecSampling == Init /\ [][SamplingNext]_vars

\* History: frames rendered past the capacity of the history.  The CPU
\* reading of a frame is free in the first MaxFrames frames and then follows
\* a sawtooth in which every fifth query fails.
FrameReadings ==
    IF frames < MaxFrames THEN {ExecFailed, IntField(frames + 1), IntField(100)}
    ELSE IF frames % 5 = 4 THEN {ExecFailed}
    ELSE {IntField((frames * 7) % 101)}

HistoryNext ==
    \/ /\ Initialize(0)
       /\ UNCHANGED winMain
    \/ /\ frames < HistorySize + MaxExtraFrames
       /\ \E c \in FrameReadings : Render(c, MemExecFailed, ExecFailed)
       /\ UNCHANGED winMain

SpecHistory == Init /\ [][HistoryNext]_vars

\* Overlay: one run of WinMain from the construction of gui to its return,
\* with messages arriving at any time.
MainNext ==
    \/ \E m \in Messages : PostMessage(m)
    \/ \E backendsOk \in BOOLEAN, failStep \in FailSteps : WinMainInitialize(backendsOk, failStep)
    \/ WinMainInitializeFailed
    \/ WinMainDispatch
    \/ \E c \in LifeCpuOutcomes, m \in LifeMemOutcomes, d \in LifeDiskOutcomes : WinMainRender(c, m, d)
    \/ WinMainCleanup
    \/ GuiDestructor
    \/ PerformanceMonitorDestructor

SpecMain == Init /\ [][MainNext]_vars


\* ------------------------------------------------------------------ claims
\* ConnectionState == Connected: Initialize succeeded and the proxy is held.
Connected == m_pServices = "live"

\* The provider-library initialisation count: CoInitializeEx successes not
\* yet matched by a CoUninitialize.
ComBalance == comInits - comUninits

\* C1: when the first Initialize() fails at the locator-acquisition step
\* (step 3), on return no provider handle is held and the sampler is not
\* Connected, and a Shutdown() called right afterwards releases nothing and
\* does not un-initialise the provider library a further time.
C1_ShutdownAfterLocatorFailureIsNoOp ==
    [][(op.name = "Initialize" /\ op.step = 3 /\ calls.init = 1 /\ op'.name = "Shutdown")
        => /\ held = [loc |-> 0, svc |-> 0]
           /\ m_pLocator = "null"
           /\ ~Connected
           /\ ~crashed'
           /\ held' = held
           /\ overReleased' = overReleased
           /\ comUninits' = comUninits]_vars

\* C2: Shutdown() is idempotent: a Shutdown() that directly follows a
\* Shutdown() leaves the observable state (held handles, connection state,
\* provider-library initialisation count, current values) as it was.
C2_ShutdownIdempotent ==
    [][(op.name = "Shutdown" /\ op'.name = "Shutdown")
        => /\ ~crashed'
           /\ held' = held
           /\ m_pLocator' = m_pLocator
           /\ m_pServices' = m_pServices
           /\ ComBalance' = ComBalance
           /\ values' = values]_vars

\* C3: when the first Initialize() fails, at whichever step, every resource
\* it acquired has been released and the sampler is not Connected, so a
\* Refresh() issued right after it performs no query and changes no value.
C3_FailedInitializeLeavesNothing ==
    [][(op.name = "Initialize" /\ op.step # 0 /\ calls.init = 1 /\ op'.name = "Update")
        => /\ held = [loc |-> 0, svc |-> 0]
           /\ ComBalance = 0
           /\ ~Connected
           /\ ~crashed'
           /\ op'.queries = 0
           /\ values' = values]_vars

\* A query of CPU or Disk that produced no record, and one that produced a
\* well-formed number.
QueryFailed(o) == ~o.exec \/ ~o.row
QuerySucceeded(o) ==
    /\ o.exec /\ o.row /\ o.get
    /\ \/ o.vt = "VT_I4"
       \/ o.vt = "VT_BSTR" /\ IsNumericText(o.bstrVal)
Reading(o) == IF o.vt = "VT_I4" THEN o.ulVal ELSE Wtol(o.bstrVal)

\* The same for the memory query: both fields are numbers and total > 0.
MemQuerySucceeded(m) ==
    /\ m.exec /\ m.row /\ m.total.get /\ m.free.get
    /\ IsNumericText(m.total.bstrVal) /\ IsNumericText(m.free.bstrVal)
    /\ Wtol(m.total.bstrVal) > 0

\* The outcomes in which a query either fails or returns a well-formed reading.
SettledCpuOutcomes  == {c \in CpuOutcomes : QueryFailed(c) \/ QuerySucceeded(c)}
SettledMemOutcomes  == {m \in MemOutcomes : QueryFailed(m) \/ MemQuerySucceeded(m)}
SettledDiskOutcomes == {d \in DiskOutcomes : QueryFailed(d) \/ QuerySucceeded(d)}

\* C4: partial-failure isolation: in a Refresh() of a Connected sampler, for
\* every combination of query outcomes (each query either fails or returns
\* a well-formed reading), the Refresh() completes, each metric whose query
\* succeeds gets its CurrentValue set from that reading and each metric
\* whose query fails keeps exactly its prior CurrentValue.
C4_PartialFailureIsolation ==
    [][(Connected /\ op'.name = "Update")
        => \A c \in SettledCpuOutcomes, m \in SettledMemOutcomes, d \in SettledDiskOutcomes :
            UpdateCore(c, m, d, "Update")
            => /\ ~crashed'
               /\ op'.queries = 3
               /\ QuerySucceeded(c) => m_cpuLoad' = ULongToFloat(Reading(c))
               /\ QueryFailed(c) => m_cpuLoad' = m_cpuLoad
               /\ MemQuerySucceeded(m)
                    => m_memoryUsage' = MemoryPercent(Wtol(m.total.bstrVal), Wtol(m.free.bstrVal))
               /\ QueryFailed(m) => m_memoryUsage' = m_memoryUsage
               /\ QuerySucceeded(d) => m_diskUsage' = ULongToFloat(Reading(d))
               /\ QueryFailed(d) => m_diskUsage' = m_diskUsage]_vars

\* C4 witness: a Refresh() in which Disk failed while CPU and Memory were
\* read: CPU and Memory carry readings, Disk still has its earlier reading.
C4_Witness ==
    /\ Connected /\ op.name = "Update" /\ op.queries = 3
    /\ m_cpuLoad = ULongToFloat(7)
    /\ m_memoryUsage = Ratio(50, 1, 0)
    /\ m_diskUsage = ULongToFloat(40)

\* C5: Refresh() on an Uninitialized sampler (before any Initialize, or
\* after Shutdown) is a no-op: no query is issued and every CurrentValue and
\* the history (storage, writeIndex, filled) are unchanged.
C5_RefreshUninitializedIsNoOp ==
    [][(m_pServices = "null" /\ op'.name = "Update")
        => /\ op'.queries = 0
           /\ ~crashed'
           /\ values' = values
           /\ history' = history]_vars

\* C5 witness: a Refresh() after Shutdown that issued no query, with the
\* values and the history of earlier frames still in place.
C5_Witness ==
    /\ op.name = "Update" /\ op.queries = 0
    /\ m_pServices = "null" /\ calls.shutdown > 0
    /\ m_cpuLoad = ULongToFloat(40)
    /\ frames > 0 /\ pushed[frames] = ULongToFloat(40)


\* C6 (as claimed): the history is appended to only by a successful query:
\* a frame of a Connected sampler whose CPU query fails leaves the history
\* (storage, writeIndex, filled) untouched.
C6_HistoryOnlyOnSuccess ==
    [][(op'.name = "Render" /\ ~crashed')
        => \A c \in LifeCpuOutcomes, m \in LifeMemOutcomes, d \in LifeDiskOutcomes :
            (Connected /\ QueryFailed(c) /\ Render(c, m, d)) => history' = history]_vars

\* C6 (amended): every rendered frame appends the CPU CurrentValue it reads
\* after its Refresh() to the history, whether or not that frame's CPU query
\* succeeded: the slot at writeIndex receives m_cpuLoad, no other slot
\* changes, writeIndex advances by one modulo the capacity, and the number
\* of pushes equals the number of rendered frames.
C6_HistoryPushedEveryFrame ==
    [][(op'.name = "Render" /\ ~crashed')
        => /\ frames' = frames + 1
           /\ pushed' = Append(pushed, m_cpuLoad')
           /\ cpuHistory'[historyIndex + 1] = m_cpuLoad'
           /\ \A i \in 1..HistorySize : i # historyIndex + 1 => cpuHistory'[i] = cpuHistory[i]
           /\ historyIndex' = (historyIndex + 1) % HistorySize
           /\ Len(pushed') = frames']_vars

\* C6 witness: a frame rendered after Shutdown issued no query and still
\* pushed the last good CPU value a second time.
C6_Witness ==
    /\ op.name = "Render" /\ op.queries = 0 /\ ~crashed
    /\ frames = 2 /\ historyIndex = 2
    /\ pushed = <<40, 40>>
    /\ cpuHistory[1] = 40 /\ cpuHistory[2] = 40

\* A conversion failure of a CPU or Disk reading: the field is missing from
\* the record, or its text is not a number.
ConversionFailed(o) ==
    /\ o.exec /\ o.row
    /\ \/ ~o.get
       \/ o.vt = "VT_BSTR" /\ ~IsNumericText(o.bstrVal)

\* The same for either field of the memory record.
MemConversionFailed(m) ==
    /\ m.exec /\ m.row
    /\ \/ ~m.total.get \/ ~m.free.get
       \/ ~IsNumericText(m.total.bstrVal) \/ ~IsNumericText(m.free.bstrVal)

\* C7: a conversion failure in a metric's query result is treated like a
\* query failure: in a Refresh() that completes, that metric's CurrentValue
\* keeps its prior value, for CPU, Memory and Disk.
C7_ConversionFailureSkipsUpdate ==
    [][(Connected /\ op'.name = "Update" /\ ~crashed')
        => \A c \in CpuOutcomes, m \in MemOutcomes, d \in DiskOutcomes :
            UpdateCore(c, m, d, "Update")
            => /\ ConversionFailed(c) => m_cpuLoad' = m_cpuLoad
               /\ MemConversionFailed(m) => m_memoryUsage' = m_memoryUsage
               /\ ConversionFailed(d) => m_diskUsage' = m_diskUsage]_vars

\* C8: every CurrentValue is within [0,100] in every reachable state.
C8_ValuesWithinPercentRange ==
    /\ 0 <= m_cpuLoad /\ m_cpuLoad <= 100
    /\ InPercentRange(m_memoryUsage)
    /\ 0 <= m_diskUsage /\ m_diskUsage <= 100


\* The view handed to the plot: what PlotLines draws from the history.
PlotView == PlotLines(HistoryBuffer, HistorySize)

\* The last n values of a sequence.
LastN(seq, n) == SubSeq(seq, Len(seq) - n + 1, Len(seq))

\* A history of capacity n after the pushes of seq, from the empty buffer.
RECURSIVE PushAll(_, _, _)
PushAll(buf, n, seq) ==
    IF seq = <<>> THEN buf ELSE PushAll(HistoryPush(buf, n, Head(seq)), n, Tail(seq))

EmptyHistory(n) == [storage |-> [i \in 1..n |-> 0], index |-> 0, filled |-> FALSE]

\* C9: after N + k pushes (k >= 0) into the history of capacity N, the view
\* handed to the plot is exactly the last N pushed values in push order: it
\* has length N, its last element is the most recently pushed value and its
\* first the oldest retained one.  With capacity 3, the pushes 10, 20, 30
\* give <<10, 20, 30>> and a 4th push of 40 gives <<20, 30, 40>>.
C9_ViewIsLastNPushed ==
    /\ frames >= HistorySize
         => /\ filled
            /\ Len(PlotView) = HistorySize
            /\ PlotView = LastN(pushed, HistorySize)
            /\ PlotView[HistorySize] = pushed[frames]
            /\ PlotView[1] = pushed[frames - HistorySize + 1]
    /\ PlotLines(PushAll(EmptyHistory(3), 3, <<10, 20, 30>>), 3) = <<10, 20, 30>>
    /\ PlotLines(PushAll(EmptyHistory(3), 3, <<10, 20, 30, 40>>), 3) = <<20, 30, 40>>

\* C9 witness: two pushes past the capacity, so the two oldest values have
\* been overwritten and the view starts in the middle of the storage.
C9_Witness ==
    /\ frames = HistorySize + 2 /\ filled /\ historyIndex = 2
    /\ cpuHistory[1] # cpuHistory[HistorySize]
    /\ pushed[1] # cpuHistory[1]

\* C10 (as claimed): before the history is filled, the view handed to the
\* plot contains exactly the values pushed so far, oldest first, with length
\* equal to the number of pushes and no never-written slot.  (The code
\* pushes before it plots, so the first view follows the first push.)
C10_ViewIsPushedSoFar ==
    (0 < frames /\ frames < HistorySize) => PlotView = pushed

\* C10 (amended): before the history is filled (fewer than N pushes), the
\* view handed to the plot has length N: its first writeIndex elements are
\* exactly the values pushed so far, oldest first, and the remaining
\* N - writeIndex elements are the never-written slots, which hold their
\* initial 0.
C10_ViewIsPushedThenZeros ==
    frames < HistorySize
        => /\ ~filled
           /\ historyIndex = frames
           /\ Len(PlotView) = HistorySize
           /\ SubSeq(PlotView, 1, historyIndex) = pushed
           /\ \A i \in historyIndex + 1 .. HistorySize : PlotView[i] = 0

\* C10 witness: two frames in, the view starts with the two pushed values
\* and is padded with never-written slots.
C10_Witness ==
    /\ frames = 2 /\ ~filled /\ historyIndex = 2
    /\ pushed = <<1, 100>>
    /\ PlotView[1] = 1 /\ PlotView[2] = 100 /\ PlotView[HistorySize] = 0


\* A memory record that was read and reports a total of 0.
ZeroTotalOutcomes ==
    {m \in MemOutcomes :
        /\ m.exec /\ m.row /\ m.total.get /\ m.free.get
        /\ IsNumericText(m.total.bstrVal) /\ Wtol(m.total.bstrVal) = 0}

\* C11: zero-guard: in a Refresh() of a Connected sampler where the memory
\* query succeeds and reports a total of 0, the Refresh() completes with all
\* three queries issued, the memory CurrentValue is left exactly at its
\* prior value, and CPU and Disk are still processed: each is set from its
\* reading when its query succeeded and kept when it failed.
C11_ZeroTotalSkipsMemoryOnly ==
    [][(Connected /\ op'.name = "Update")
        => \A c \in SettledCpuOutcomes, m \in ZeroTotalOutcomes, d \in SettledDiskOutcomes :
            UpdateCore(c, m, d, "Update")
            => /\ ~crashed'
               /\ op'.queries = 3
               /\ m_memoryUsage' = m_memoryUsage
               /\ QuerySucceeded(c) => m_cpuLoad' = ULongToFloat(Reading(c))
               /\ QueryFailed(c) => m_cpuLoad' = m_cpuLoad
               /\ QuerySucceeded(d) => m_diskUsage' = ULongToFloat(Reading(d))
               /\ QueryFailed(d) => m_diskUsage' = m_diskUsage]_vars

\* C11 witness: the memory value of an earlier Refresh() (50) survived a
\* Refresh() that issued all three queries and gave CPU and Disk new
\* readings, as a Refresh() whose memory record reports a total of 0 does.
C11_Witness ==
    /\ Connected /\ op.name = "Update" /\ op.queries = 3
    /\ m_memoryUsage = Ratio(50, 1, 0)
    /\ m_cpuLoad = 150
    /\ m_diskUsage = 150

\* C13: HistoryBuffer invariant over any number of pushes with capacity N
\* (90): writeIndex is always in [0,N) and equals (number of pushes) mod N,
\* and a push overwrites exactly the slot it points to; filled is false while
\* fewer than N pushes have occurred, is true from the N-th push on (when
\* writeIndex wraps to 0) and never returns to false.
C13_HistoryBufferInvariant ==
    /\ [](/\ historyIndex \in 0..(HistorySize - 1)
          /\ historyIndex = Len(pushed) % HistorySize
          /\ filled <=> Len(pushed) >= HistorySize)
    /\ [][/\ filled => filled'
          /\ Len(pushed') = Len(pushed) + 1
               => cpuHistory' = [cpuHistory EXCEPT ![historyIndex + 1] = pushed'[Len(pushed')]]]_vars

\* C13 witness: the N-th push has just wrapped writeIndex to 0 and raised
\* filled.
C13_Witness ==
    /\ Len(pushed) = HistorySize
    /\ historyIndex = 0
    /\ filled

\* C15: over any sequence of Initialize() (succeeding or failing at any
\* step), Update() and Shutdown() calls on one sampler, no provider handle
\* (locator or services) is released more than once per acquisition, no
\* handle is used by Update() or released by Shutdown() after it has already
\* been released, and a handle field is non-null only while the handle it
\* names is still held.
C15_HandleSafety ==
    /\ [](/\ overReleased = 0
          /\ m_pLocator # "null" => (m_pLocator = "live" /\ held.loc > 0)
          /\ m_pServices # "null" => (m_pServices = "live" /\ held.svc > 0))
    /\ [][op'.name \in {"Update", "Render", "Shutdown"}
            => (m_pLocator # "dangling" /\ m_pServices # "dangling")]_vars

\* C12: in the main loop, each iteration either dispatches one pending
\* platform message or, only when no message is pending, renders one frame;
\* every rendered frame calls Refresh() exactly once, before the current
\* values are read and the history is pushed (the frame pushes the CPU value
\* its own Refresh() left), and Refresh() is never called outside a
\* rendered frame.
C12_MainLoopRefreshesOncePerFrame ==
    [][/\ frames' # frames
          => /\ pc = "loop" /\ pc' = "loop"
             /\ msg # "WM_QUIT"
             /\ queue = <<>>
             /\ queue' = queue /\ msg' = msg
             /\ frames' = frames + 1
             /\ op'.name = "Render"
             /\ op'.queries = 3
             /\ pushed' = Append(pushed, m_cpuLoad')
       /\ (pc = "loop" /\ (msg' # msg \/ (queue' # queue /\ Len(queue') <= Len(queue))))
          => /\ queue # <<>>
             /\ msg' = Head(queue)
             /\ queue' \in {Tail(queue), Append(Tail(queue), "WM_QUIT")}
             /\ frames' = frames
             /\ values' = values /\ pushed' = pushed /\ op' = op
       /\ op'.name # "Update"
       /\ (values' # values \/ (op'.name = "Render" /\ op.name # "Render"))
          => frames' = frames + 1]_vars

\* C12 witness: the loop has dispatched a message and rendered frames whose
\* Refresh() issued its queries, the last one reading 40 for the CPU and
\* pushing it.
C12_Witness ==
    /\ pc = "loop"
    /\ msg = "WM_APP_TRY_MSG"
    /\ frames >= 2
    /\ op.name = "Render" /\ op.queries = 3
    /\ m_cpuLoad = 40
    /\ pushed[Len(pushed)] = 40

\* C14: provider-library initialisation is balanced over the whole overlay
\* lifetime: on every path through WinMain on which the sampler's
\* Initialize() ran (failing at any step, or succeeding and the run ended by
\* WM_QUIT), counting the explicit Gui::Shutdown, the Gui destructor and the
\* PerformanceMonitor destructor, the number of CoUninitialize calls never
\* exceeds the number of successful CoInitializeEx calls.
C14_ComBalancedOverLifetime ==
    calls.init > 0 => comUninits <= comInits

====
